---- MODULE Spec2Model ----
(***************************************************************************)
(* Model of the RPC network behaviour of beacon_node/eth2-libp2p            *)
(* (src/rpc/mod.rs): the struct Rpc, its queue `events`, the application    *)
(* entry point send_rpc and the NetworkBehaviour callbacks the libp2p host  *)
(* invokes (new_handler, addresses_of_peer, inject_connected,               *)
(* inject_disconnected, inject_node_event, poll).                           *)
(*                                                                          *)
(* Vocabulary of the specification document -> names of the source:         *)
(*   DeliverToPeer(p, e)        NetworkBehaviourAction::SendEvent           *)
(*   Emit(m)                    NetworkBehaviourAction::GenerateEvent       *)
(*   Delivered(p, e)            RPCMessage::RPC(p, e)                       *)
(*   OutboundEstablished(p)     RPCMessage::PeerDialed(p)                   *)
(*   Received(e) / Sent         HandlerEvent::Rx(e) / HandlerEvent::Sent    *)
(*   Outbound / Inbound         ConnectedPoint::Dialer / ::Listener         *)
(*   on_connection_established  inject_connected                            *)
(*   on_connection_closed       inject_disconnected                         *)
(*   on_handler_outcome         inject_node_event                           *)
(*   handler_factory            new_handler                                 *)
(*   resolve_addresses          addresses_of_peer                           *)
(***************************************************************************)
EXTENDS Bags, FiniteSets, Integers, Sequences, TLC

(***************************************************************************)
(* Bounds and input domains.                                               *)
(***************************************************************************)

\* Number of calls made on one controller in a behaviour.
MaxOps == 3

\* Number of calls other than poll made in a behaviour of FairSpec.
MaxInject == 3

\* Number of polls that find the queue empty in a behaviour of FairSpec.
MaxIdlePolls == 2

\* Number of connections established between the two processes of PairSpec.
MaxLinks == 3

\* Number of calls made on one controller in a behaviour of DrainSpec, whose
\* callers draw their arguments from the few values of the Drain* sets.
MaxDeep == 6

\* Peer identifiers handed in by the host and the application.
PeerIds == {"A", "B"}

(***************************************************************************)
(* Event model.                                                            *)
(***************************************************************************)

\* RPCEvent::Request(u64, RPCRequest)
Request(id, body) == [tag |-> "Request", id |-> id, body |-> body]

\* RPCEvent::Response(u64, RPCResponse)
Response(id, body) == [tag |-> "Response", id |-> id, body |-> body]

\* The RPCEvent values the callers supply: both variants, two correlation
\* ids, two payloads.
RPCEvent ==
    {Request(1, "X"), Request(2, "Y"), Response(1, "Y"), Response(2, "X")}

\* RPCMessage::RPC(PeerId, RPCEvent)
RPC(peer_id, event) == [tag |-> "RPC", peer_id |-> peer_id, event |-> event]

\* RPCMessage::PeerDialed(PeerId)
PeerDialed(peer_id) == [tag |-> "PeerDialed", peer_id |-> peer_id]

\* HandlerEvent::Rx(RPCEvent)
Rx(event) == [tag |-> "Rx", event |-> event]

\* HandlerEvent::Sent
Sent == [tag |-> "Sent"]

\* The outcomes the per-connection handler reports.
HandlerEvent == {Sent} \cup {Rx(e) : e \in RPCEvent}

\* ConnectedPoint::Dialer { .. } and ConnectedPoint::Listener { .. }
ConnectedPoint == {"Dialer", "Listener"}

\* NetworkBehaviourAction::SendEvent { peer_id, event }
SendEvent(peer_id, event) ==
    [tag |-> "SendEvent", peer_id |-> peer_id, event |-> event]

\* NetworkBehaviourAction::GenerateEvent(RPCMessage)
GenerateEvent(msg) == [tag |-> "GenerateEvent", msg |-> msg]

(***************************************************************************)
(* Return values.                                                          *)
(***************************************************************************)

\* ()
Unit == [tag |-> "Unit"]

\* Async::NotReady
NotReady == [tag |-> "NotReady"]

\* Async::Ready(action)
Ready(action) == [tag |-> "Ready", action |-> action]

\* Default::default() of the OneShotHandler
DefaultHandler == [tag |-> "Handler", handler |-> "Default"]

\* Vec<Multiaddr>
Addresses(addrs) == [tag |-> "Addresses", addrs |-> addrs]

(***************************************************************************)
(* State.                                                                  *)
(*   events  Rpc::events, the queue of actions                             *)
(*   trace   history: one record per call made so far, with the call and   *)
(*           its arguments, the value it returned and the queue before     *)
(*           and after it                                                  *)
(*   remote  a second Rpc, the one of the process at the other end of the  *)
(*           connections of `links`: its events and its history            *)
(*   links   the connections established between the two processes, in    *)
(*           order, each given as the process that dialed                  *)
(***************************************************************************)
VARIABLES events, trace, remote, links

vars == <<events, trace, remote, links>>

\* A call returns `result` and leaves the queue as `after`.
Return(call, result, after) ==
    /\ events' = after
    /\ trace' = Append(trace, [call |-> call, result |-> result,
                               before |-> events, after |-> after])
    /\ UNCHANGED <<remote, links>>

\* Variant of Vec::push for a queue of fixed capacity: a push on a full
\* queue is dropped.
VecPush_bounded(v, x) == IF Len(v) < 4 THEN Append(v, x) ELSE v

\* std Vec::push
VecPush(v, x) == Append(v, x)

\* std Vec::remove(0): the element removed and the vector left
VecRemove0(v) == [removed |-> v[1], rest |-> SubSeq(v, 2, Len(v))]

\* Variant of Rpc::new that starts the queue with a report of the local
\* node.
Init_preloaded ==
    /\ events = <<GenerateEvent(PeerDialed("A"))>>
    /\ trace = <<>>
    /\ remote = [events |-> <<>>, trace |-> <<>>]
    /\ links = <<>>

\* Rpc::new
Init ==
    /\ events = <<>>
    /\ trace = <<>>
    /\ remote = [events |-> <<>>, trace |-> <<>>]
    /\ links = <<>>

\* Connectivity of peer_id as the host has reported it so far: "never" before
\* any inject_connected, "connected" after one, "closed" after a later
\* inject_disconnected.
ConnStatusAfter(peer_id, n) ==
    LET reports == {j \in 1..n :
                      /\ trace[j].call.op \in {"inject_connected",
                                               "inject_disconnected"}
                      /\ trace[j].call.peer_id = peer_id}
        last == CHOOSE j \in reports : \A k \in reports : k <= j
    IN  IF reports = {} THEN "never"
        ELSE IF trace[last].call.op = "inject_connected" THEN "connected"
        ELSE "closed"

\* Variant of send_rpc that enforces "the peer must be connected": the event
\* is queued only for a peer reported connected.
send_rpc_if_connected(peer_id, rpc_event) ==
    Return([op |-> "send_rpc", peer_id |-> peer_id, rpc_event |-> rpc_event],
           Unit,
           IF ConnStatusAfter(peer_id, Len(trace)) = "connected"
           THEN VecPush(events, SendEvent(peer_id, rpc_event))
           ELSE events)

\* Variant of send_rpc that assigns the request its own sequential id.
send_rpc_renumber(peer_id, rpc_event) ==
    Return([op |-> "send_rpc", peer_id |-> peer_id, rpc_event |-> rpc_event],
           Unit,
           VecPush(events,
                   SendEvent(peer_id,
                             [rpc_event EXCEPT !.id = Len(events) + 1])))

\* Rpc::send_rpc
send_rpc(peer_id, rpc_event) ==
    Return([op |-> "send_rpc", peer_id |-> peer_id, rpc_event |-> rpc_event],
           Unit,
           VecPush(events, SendEvent(peer_id, rpc_event)))

\* NetworkBehaviour::new_handler
new_handler ==
    Return([op |-> "new_handler"], DefaultHandler, events)

\* Variant of addresses_of_peer that answers for the peers the host has
\* reported connected.
addresses_of_peer_connected(peer_id) ==
    Return([op |-> "addresses_of_peer", peer_id |-> peer_id],
           IF ConnStatusAfter(peer_id, Len(trace)) = "connected"
           THEN Addresses(<<peer_id>>)
           ELSE Addresses(<<>>),
           events)

\* NetworkBehaviour::addresses_of_peer
addresses_of_peer(peer_id) ==
    Return([op |-> "addresses_of_peer", peer_id |-> peer_id],
           Addresses(<<>>), events)

\* Variant of inject_connected that reports every connection, dialed or not.
inject_connected_any(peer_id, connected_point) ==
    Return([op |-> "inject_connected", peer_id |-> peer_id,
            connected_point |-> connected_point],
           Unit,
           VecPush(events, GenerateEvent(PeerDialed(peer_id))))

\* Variant of the body of inject_connected without the test for Dialer.
inject_connected_body_any(self_events, peer_id, connected_point) ==
    VecPush(self_events, GenerateEvent(PeerDialed(peer_id)))

\* The body of NetworkBehaviour::inject_connected: self.events as the call
\* on a controller whose queue is self_events leaves it.
inject_connected_body(self_events, peer_id, connected_point) ==
    IF connected_point = "Dialer"
    THEN VecPush(self_events, GenerateEvent(PeerDialed(peer_id)))
    ELSE self_events

\* NetworkBehaviour::inject_connected
inject_connected(peer_id, connected_point) ==
    Return([op |-> "inject_connected", peer_id |-> peer_id,
            connected_point |-> connected_point],
           Unit,
           inject_connected_body(events, peer_id, connected_point))

\* Variant of inject_disconnected that empties the queue.
inject_disconnected_clear(peer_id, connected_point) ==
    Return([op |-> "inject_disconnected", peer_id |-> peer_id,
            connected_point |-> connected_point],
           Unit, <<>>)

\* Variant of inject_disconnected that withdraws the events still queued for
\* delivery to the peer.
inject_disconnected_purge(peer_id, connected_point) ==
    Return([op |-> "inject_disconnected", peer_id |-> peer_id,
            connected_point |-> connected_point],
           Unit,
           SelectSeq(events,
                     LAMBDA a : ~(a.tag = "SendEvent" /\ a.peer_id = peer_id)))

\* NetworkBehaviour::inject_disconnected
inject_disconnected(peer_id, connected_point) ==
    Return([op |-> "inject_disconnected", peer_id |-> peer_id,
            connected_point |-> connected_point],
           Unit, events)

\* Variant of inject_node_event that queues a received event for the handler
\* instead of the user.
inject_node_event_echo(source, event) ==
    Return([op |-> "inject_node_event", source |-> source, event |-> event],
           Unit,
           IF event.tag = "Rx"
           THEN VecPush(events, SendEvent(source, event.event))
           ELSE events)

\* Variant of inject_node_event that ignores received events as it ignores
\* sent ones.
inject_node_event_drop(source, event) ==
    Return([op |-> "inject_node_event", source |-> source, event |-> event],
           Unit, events)

\* Variant of inject_node_event that keeps a protocol state: a response is
\* passed to the user only when a request with its id was sent to the peer
\* it comes from.
inject_node_event_matched(source, event) ==
    Return([op |-> "inject_node_event", source |-> source, event |-> event],
           Unit,
           IF /\ event.tag = "Rx"
              /\ \/ event.event.tag = "Request"
                 \/ \E k \in DOMAIN trace :
                      /\ trace[k].call.op = "send_rpc"
                      /\ trace[k].call.peer_id = source
                      /\ trace[k].call.rpc_event.tag = "Request"
                      /\ trace[k].call.rpc_event.id = event.event.id
           THEN VecPush(events, GenerateEvent(RPC(source, event.event)))
           ELSE events)

\* Variant of inject_node_event that answers a received request itself: it
\* passes the request to the user and queues a response to the peer.
inject_node_event_autoreply(source, event) ==
    Return([op |-> "inject_node_event", source |-> source, event |-> event],
           Unit,
           IF event.tag = "Rx"
           THEN IF event.event.tag = "Request"
                THEN VecPush(VecPush(events,
                                     GenerateEvent(RPC(source, event.event))),
                             SendEvent(source,
                                       Response(event.event.id, event.event.body)))
                ELSE VecPush(events, GenerateEvent(RPC(source, event.event)))
           ELSE events)

\* NetworkBehaviour::inject_node_event
inject_node_event(source, event) ==
    Return([op |-> "inject_node_event", source |-> source, event |-> event],
           Unit,
           IF event.tag = "Rx"
           THEN VecPush(events, GenerateEvent(RPC(source, event.event)))
           ELSE events)

\* Variant of poll that takes the newest action (Vec::pop).
poll_pop ==
    IF events # <<>>
    THEN Return([op |-> "poll"],
                Ready(events[Len(events)]),
                SubSeq(events, 1, Len(events) - 1))
    ELSE Return([op |-> "poll"], NotReady, events)

\* Variant of poll that returns the oldest action without removing it.
poll_peek ==
    IF events # <<>>
    THEN Return([op |-> "poll"], Ready(events[1]), events)
    ELSE Return([op |-> "poll"], NotReady, events)

\* Variant of poll without the is_empty test: Vec::remove(0) panics on an
\* empty vector.
poll_unchecked ==
    IF events # <<>>
    THEN Return([op |-> "poll"],
                Ready(VecRemove0(events).removed),
                VecRemove0(events).rest)
    ELSE Return([op |-> "poll"], [tag |-> "Panic"], events)

\* Variant of poll that reports an event it hands out for a peer the host
\* has not reported connected: it queues a failure message for the user.
poll_report_unreachable ==
    IF events # <<>>
    THEN Return([op |-> "poll"],
                Ready(VecRemove0(events).removed),
                IF /\ events[1].tag = "SendEvent"
                   /\ ConnStatusAfter(events[1].peer_id, Len(trace)) # "connected"
                THEN VecPush(VecRemove0(events).rest,
                             GenerateEvent([tag |-> "Unreachable",
                                            peer_id |-> events[1].peer_id]))
                ELSE VecRemove0(events).rest)
    ELSE Return([op |-> "poll"], NotReady, events)

\* Variant of poll that tests for more than one queued action.
poll_lazy ==
    IF Len(events) > 1
    THEN Return([op |-> "poll"],
                Ready(VecRemove0(events).removed),
                VecRemove0(events).rest)
    ELSE Return([op |-> "poll"], NotReady, events)

\* NetworkBehaviour::poll
poll ==
    IF events # <<>>
    THEN Return([op |-> "poll"],
                Ready(VecRemove0(events).removed),
                VecRemove0(events).rest)
    ELSE Return([op |-> "poll"], NotReady, events)

\* The calls made so far are fewer than n.
Within(n) == Len(trace) < n

Next ==
    \/ Within(MaxOps) /\ \E p \in PeerIds, e \in RPCEvent : send_rpc(p, e)
    \/ Within(MaxOps) /\ new_handler
    \/ Within(MaxOps) /\ \E p \in PeerIds : addresses_of_peer(p)
    \/ Within(MaxOps) /\ \E p \in PeerIds, c \in ConnectedPoint :
                             inject_connected(p, c)
    \/ Within(MaxOps) /\ \E p \in PeerIds, c \in ConnectedPoint :
                             inject_disconnected(p, c)
    \/ Within(MaxOps) /\ \E p \in PeerIds, h \in HandlerEvent :
                             inject_node_event(p, h)
    \/ Within(MaxOps) /\ poll

Spec == Init /\ [][Next]_vars

(***************************************************************************)
(* Longer behaviours over few argument values: the application sends one   *)
(* request to A; A's handler reports it sent and B's handler reports a     *)
(* response received; B connects in either direction and A disconnects;    *)
(* the host polls.                                                         *)
(***************************************************************************)

\* Arguments of send_rpc.
DrainSends == {<<"A", Request(1, "X")>>}

\* Arguments of inject_node_event.
DrainOutcomes == {<<"A", Sent>>, <<"B", Rx(Response(2, "X"))>>}

\* Arguments of inject_connected.
DrainConnections == {<<"B", "Dialer">>, <<"B", "Listener">>}

\* Arguments of inject_disconnected.
DrainCloses == {<<"A", "Dialer">>}

DrainNext ==
    \/ Within(MaxDeep) /\ \E a \in DrainSends : send_rpc(a[1], a[2])
    \/ Within(MaxDeep) /\ \E a \in DrainConnections : inject_connected(a[1], a[2])
    \/ Within(MaxDeep) /\ \E a \in DrainCloses : inject_disconnected(a[1], a[2])
    \/ Within(MaxDeep) /\ \E a \in DrainOutcomes : inject_node_event(a[1], a[2])
    \/ Within(MaxDeep) /\ poll

DrainSpec == Init /\ [][DrainNext]_vars

(***************************************************************************)
(* The host's event loop: the host keeps calling poll, while the           *)
(* application and the handlers make a bounded number of other calls, with *)
(* the arguments of the Drain* sets. A poll that finds the queue empty     *)
(* changes nothing, so only the first MaxIdlePolls of them are recorded.   *)
(***************************************************************************)

\* Number of calls other than poll made so far.
Injected ==
    Cardinality({i \in DOMAIN trace : trace[i].call.op # "poll"})

\* Number of polls so far that returned NotReady.
IdlePolls ==
    Cardinality({i \in DOMAIN trace :
                   trace[i].call.op = "poll" /\ trace[i].result = NotReady})

\* The host's call of poll in its loop.
FairPoll == (events # <<>> \/ IdlePolls < MaxIdlePolls) /\ poll

FairNext ==
    \/ Injected < MaxInject /\ \E a \in DrainSends : send_rpc(a[1], a[2])
    \/ Injected < MaxInject /\ \E a \in DrainConnections :
                                   inject_connected(a[1], a[2])
    \/ Injected < MaxInject /\ \E a \in DrainCloses :
                                   inject_disconnected(a[1], a[2])
    \/ Injected < MaxInject /\ \E a \in DrainOutcomes :
                                   inject_node_event(a[1], a[2])
    \/ FairPoll

FairSpec == Init /\ [][FairNext]_vars /\ WF_vars(FairPoll)

(***************************************************************************)
(* Two processes, each with its own Rpc: the local one (events, trace) and *)
(* the remote one. Either process dials the other; when the connection     *)
(* stands, each host calls inject_connected on its own Rpc, in either      *)
(* order, naming the other process and its own end of the connection.      *)
(***************************************************************************)

\* PeerId of the local and of the remote process.
LocalId == "A"
RemoteId == "B"

\* The end of connection k that process `side` holds.
PointOf(side, k) == IF links[k] = side THEN "Dialer" ELSE "Listener"

\* Number of connections the local host has reported to its Rpc.
LocalReports ==
    Cardinality({i \in DOMAIN trace : trace[i].call.op = "inject_connected"})

\* Number of connections the remote host has reported to its Rpc.
RemoteReports == Len(remote.trace)

\* A connection dialed by `dialer` is established.
Establish(dialer) ==
    /\ Len(links) < MaxLinks
    /\ links' = Append(links, dialer)
    /\ UNCHANGED <<events, trace, remote>>

\* The local host reports its next connection to the local Rpc.
LocalConnected ==
    /\ LocalReports < Len(links)
    /\ inject_connected(RemoteId, PointOf(LocalId, LocalReports + 1))

\* The remote host reports its next connection to the remote Rpc.
RemoteConnected ==
    /\ RemoteReports < Len(links)
    /\ LET point == PointOf(RemoteId, RemoteReports + 1)
           after == inject_connected_body(remote.events, LocalId, point)
       IN  remote' =
             [events |-> after,
              trace |-> Append(remote.trace,
                               [call |-> [op |-> "inject_connected",
                                          peer_id |-> LocalId,
                                          connected_point |-> point],
                                result |-> Unit,
                                before |-> remote.events,
                                after |-> after])]
    /\ UNCHANGED <<events, trace, links>>

\* The local host takes an action from the local Rpc.
LocalPoll == events # <<>> /\ poll

PairNext ==
    \/ \E dialer \in {LocalId, RemoteId} : Establish(dialer)
    \/ LocalConnected
    \/ RemoteConnected
    \/ LocalPoll

PairSpec == Init /\ [][PairNext]_vars

(***************************************************************************)
(* Reading the history.                                                    *)
(***************************************************************************)

\* The calls made so far are numbered 1..Len(trace).
Calls == DOMAIN trace

IsPrefix(s, t) == Len(s) <= Len(t) /\ SubSeq(t, 1, Len(s)) = s

\* v is u with exactly the one element x added at the tail.
AppendsOne(u, v, x) == Len(v) = Len(u) + 1 /\ v = Append(u, x)

RECURSIVE ReturnedUpTo(_)
\* The actions the first n calls returned from poll, in the order returned.
ReturnedUpTo(n) ==
    IF n = 0 THEN <<>>
    ELSE IF trace[n].call.op = "poll" /\ trace[n].result.tag = "Ready"
         THEN Append(ReturnedUpTo(n - 1), trace[n].result.action)
         ELSE ReturnedUpTo(n - 1)

Returned == ReturnedUpTo(Len(trace))

\* What the specification says a call enqueues, from the call's arguments
\* alone: a sequence of zero or one action.
Translate(call) ==
    CASE call.op = "send_rpc" ->
           <<SendEvent(call.peer_id, call.rpc_event)>>
      [] call.op = "inject_connected" /\ call.connected_point = "Dialer" ->
           <<GenerateEvent(PeerDialed(call.peer_id))>>
      [] call.op = "inject_node_event" /\ call.event.tag = "Rx" ->
           <<GenerateEvent(RPC(call.source, call.event.event))>>
      [] OTHER -> <<>>

RECURSIVE EnqueuedUpTo(_)
\* The actions the first n calls were to enqueue, in the order of the calls.
EnqueuedUpTo(n) ==
    IF n = 0 THEN <<>>
    ELSE EnqueuedUpTo(n - 1) \o Translate(trace[n].call)

Enqueued == EnqueuedUpTo(Len(trace))

\* Number of occurrences of x in the sequence s.
Count(x, s) == Cardinality({k \in DOMAIN s : s[k] = x})

IsSendRpc(i) == trace[i].call.op = "send_rpc"
IsPoll(i) == trace[i].call.op = "poll"
IsConnected(i, point) ==
    /\ trace[i].call.op = "inject_connected"
    /\ trace[i].call.connected_point = point
IsDisconnected(i) == trace[i].call.op = "inject_disconnected"
IsSent(i) ==
    /\ trace[i].call.op = "inject_node_event"
    /\ trace[i].call.event.tag = "Sent"
IsRx(i) ==
    /\ trace[i].call.op = "inject_node_event"
    /\ trace[i].call.event.tag = "Rx"

(***************************************************************************)
(* Claims.                                                                 *)
(***************************************************************************)

\* C1: the actions poll has returned are, in the order returned, the first
\* actions enqueued, in the order of the calls that enqueued them: strict
\* FIFO over the one queue, whatever mix of SendEvent and GenerateEvent
\* actions and of peers it holds.
C1_PollFifo == IsPrefix(Returned, Enqueued)

\* C1 witness: a received event was enqueued before a send to another peer,
\* and poll returned the received event first.
C1_Witness ==
    /\ Len(trace) = 3
    /\ IsRx(1) /\ trace[1].call.source = "A"
    /\ IsSendRpc(2) /\ trace[2].call.peer_id = "B"
    /\ IsPoll(3)
    /\ trace[3].result =
         Ready(GenerateEvent(RPC("A", trace[1].call.event.event)))
    /\ events = <<SendEvent("B", trace[2].call.rpc_event)>>

\* C2: inject_connected with ConnectedPoint::Dialer appends exactly one
\* action, GenerateEvent(PeerDialed(peer)), at the tail of the queue, and
\* with ConnectedPoint::Listener leaves the queue as it was; a poll directly
\* after a Listener connection on an empty queue returns NotReady.
C2_ConnectedEnqueue ==
    \A i \in Calls :
        /\ IsConnected(i, "Dialer") =>
             AppendsOne(trace[i].before, trace[i].after,
                        GenerateEvent(PeerDialed(trace[i].call.peer_id)))
        /\ IsConnected(i, "Listener") =>
             /\ trace[i].after = trace[i].before
             /\ (trace[i].before = <<>> /\ i + 1 \in Calls /\ IsPoll(i + 1)) =>
                  trace[i + 1].result = NotReady

\* C2 witness: on a non-empty queue a Dialer connection added PeerDialed at
\* the tail and a Listener connection after it added nothing.
C2_Witness ==
    /\ Len(trace) = 3
    /\ IsSendRpc(1)
    /\ IsConnected(2, "Dialer")
    /\ IsConnected(3, "Listener")
    /\ events = <<SendEvent(trace[1].call.peer_id, trace[1].call.rpc_event),
                  GenerateEvent(PeerDialed(trace[2].call.peer_id))>>

\* C3: inject_node_event with HandlerEvent::Sent leaves the queue as it
\* was, and with HandlerEvent::Rx(e) appends exactly one action,
\* GenerateEvent(RPC(source, e)), naming the reporting peer and carrying e
\* unchanged.
C3_NodeEventEnqueue ==
    \A i \in Calls :
        /\ IsSent(i) => trace[i].after = trace[i].before
        /\ IsRx(i) =>
             AppendsOne(trace[i].before, trace[i].after,
                        GenerateEvent(RPC(trace[i].call.source,
                                          trace[i].call.event.event)))

\* C3 witness: on a non-empty queue a Sent outcome added nothing and an
\* Rx(Response(2, "X")) outcome from B added RPC(B, Response(2, "X")).
C3_Witness ==
    /\ Len(trace) = 3
    /\ IsSendRpc(1)
    /\ IsSent(2)
    /\ IsRx(3) /\ trace[3].call.source = "B"
    /\ trace[3].call.event.event = Response(2, "X")
    /\ Len(events) = 2
    /\ events[2] = GenerateEvent(RPC("B", Response(2, "X")))

\* C4: poll on an empty queue returns NotReady and leaves the queue empty;
\* after any run of consecutive polls that starts on an empty queue, every
\* one of them returned NotReady and the queue is as before the first.
C4_PollEmptyIdempotent ==
    \A i \in Calls : \A j \in Calls :
        (/\ i <= j
         /\ trace[i].before = <<>>
         /\ \A k \in i..j : IsPoll(k))
        => /\ \A k \in i..j : trace[k].result = NotReady
           /\ trace[j].after = trace[i].before
           /\ (j = Len(trace) => events = <<>>)

\* C4 witness: three consecutive polls of the new controller.
C4_Witness ==
    /\ Len(trace) = 3
    /\ \A k \in Calls : IsPoll(k) /\ trace[k].result = NotReady
    /\ events = <<>>

\* C5: send_rpc appends exactly one SendEvent { peer_id, event } at the
\* tail of the queue in every state, whether the host has never reported
\* the peer connected, reports it connected, or has reported it closed.
C5_SendRpcAlwaysEnqueues ==
    \A i \in Calls :
        \A status \in {"never", "connected", "closed"} :
            (IsSendRpc(i)
             /\ ConnStatusAfter(trace[i].call.peer_id, i - 1) = status)
            => AppendsOne(trace[i].before, trace[i].after,
                          SendEvent(trace[i].call.peer_id,
                                    trace[i].call.rpc_event))

\* C5 witness: a send to a peer whose connection was opened and then closed
\* is enqueued.
C5_Witness ==
    /\ Len(trace) = 3
    /\ IsConnected(1, "Dialer") /\ trace[1].call.peer_id = "A"
    /\ IsDisconnected(2) /\ trace[2].call.peer_id = "A"
    /\ IsSendRpc(3) /\ trace[3].call.peer_id = "A"
    /\ ConnStatusAfter("A", 2) = "closed"
    /\ events = <<GenerateEvent(PeerDialed("A")),
                  SendEvent("A", trace[3].call.rpc_event)>>

\* C6: inject_disconnected leaves the queue exactly as it was: nothing is
\* enqueued, and the actions queued for the peer are neither removed nor
\* reordered; the next poll after it returns the action that headed the
\* queue when the connection closed.
C6_DisconnectedNoOp ==
    \A i \in Calls :
        IsDisconnected(i) =>
            /\ trace[i].after = trace[i].before
            /\ \A j \in Calls :
                 (/\ i < j
                  /\ IsPoll(j)
                  /\ \A k \in (i + 1)..(j - 1) : ~IsPoll(k)
                  /\ trace[i].before # <<>>)
                 => trace[j].result = Ready(trace[i].before[1])

\* C6 witness: an event was queued for A, A's connection closed, and the
\* poll after that returned the event for A.
C6_Witness ==
    /\ Len(trace) = 3
    /\ IsSendRpc(1) /\ trace[1].call.peer_id = "A"
    /\ IsDisconnected(2) /\ trace[2].call.peer_id = "A"
    /\ IsPoll(3)
    /\ trace[3].result = Ready(SendEvent("A", trace[1].call.rpc_event))
    /\ events = <<>>

\* C7: a call lengthens the queue only if it is send_rpc, inject_connected
\* as Dialer or inject_node_event with Rx, and then by exactly one action;
\* and every action occurs among those returned by poll and those still
\* queued exactly as often as it was enqueued: none is lost, none is
\* returned twice.
C7_Conservation ==
    /\ \A i \in Calls :
         Len(trace[i].after) > Len(trace[i].before) =>
            /\ IsSendRpc(i) \/ IsConnected(i, "Dialer") \/ IsRx(i)
            /\ Len(trace[i].after) = Len(trace[i].before) + 1
    /\ Len(Returned) + Len(events) = Len(Enqueued)
    /\ \A a \in {Enqueued[k] : k \in DOMAIN Enqueued}
                  \cup {Returned[k] : k \in DOMAIN Returned}
                  \cup {events[k] : k \in DOMAIN events} :
         Count(a, Returned) + Count(a, events) = Count(a, Enqueued)

\* C7 witness: the same action was enqueued twice; poll returned one copy
\* and the other is still queued.
C7_Witness ==
    /\ Len(trace) = 3
    /\ IsSendRpc(1) /\ IsSendRpc(2)
    /\ trace[1].call = trace[2].call
    /\ IsPoll(3)
    /\ Returned = <<SendEvent(trace[1].call.peer_id, trace[1].call.rpc_event)>>
    /\ events = Returned

\* The call i added one GenerateEvent action at the tail of the queue.
EmitAppended(i) ==
    /\ Len(trace[i].after) = Len(trace[i].before) + 1
    /\ IsPrefix(trace[i].before, trace[i].after)
    /\ trace[i].after[Len(trace[i].after)].tag = "GenerateEvent"

\* The call i added one GenerateEvent(RPC(_, _)) action at the tail.
RpcEmitAppended(i) ==
    /\ EmitAppended(i)
    /\ trace[i].after[Len(trace[i].after)].msg.tag = "RPC"

\* C8 as stated: a GenerateEvent action is appended in exactly the calls
\* that deliver HandlerEvent::Rx, and in no other call.
C8_EmitOnlyOnRx ==
    \A i \in Calls : EmitAppended(i) <=> IsRx(i)

\* C8 amended: a GenerateEvent(RPC(_, _)) action is appended in exactly the
\* calls that deliver HandlerEvent::Rx; the only other GenerateEvent action,
\* PeerDialed, is appended in exactly the inject_connected calls made as
\* Dialer; no other call appends a GenerateEvent action.
C8_EmitOnRxOrDialed ==
    \A i \in Calls :
        /\ RpcEmitAppended(i) <=> IsRx(i)
        /\ (EmitAppended(i) /\ ~RpcEmitAppended(i)) <=> IsConnected(i, "Dialer")
        /\ EmitAppended(i) <=> (IsRx(i) \/ IsConnected(i, "Dialer"))

\* C8 witness: an Rx outcome emitted RPC, a Sent outcome emitted nothing and
\* a Dialer connection emitted PeerDialed.
C8_Witness ==
    /\ Len(trace) = 3
    /\ IsRx(1) /\ RpcEmitAppended(1)
    /\ IsSent(2) /\ ~EmitAppended(2)
    /\ IsConnected(3, "Dialer") /\ EmitAppended(3) /\ ~RpcEmitAppended(3)

\* Everything drained so far followed by what is still to drain.
DrainOrder == Returned \o events

\* The place in DrainOrder of the action that call i put at the tail of the
\* queue: behind the actions returned before call i and those queued then.
DrainPos(i) == Len(ReturnedUpTo(i)) + Len(trace[i].after)

\* C9: when send_rpc(P, Request(id, X)) is followed by an Rx(Response(id, Y))
\* outcome from P, the first enqueued SendEvent { P, Request(id, X) } and the
\* second GenerateEvent(RPC(P, Response(id, Y))), id and payloads as
\* supplied, and the two leave the queue in that order, each at the place
\* its call gave it; this holds for every id, used before or not.
C9_RoundTrip ==
    \A i \in Calls : \A j \in Calls :
        (/\ i < j
         /\ IsSendRpc(i) /\ trace[i].call.rpc_event.tag = "Request"
         /\ IsRx(j) /\ trace[j].call.event.event.tag = "Response"
         /\ trace[j].call.source = trace[i].call.peer_id
         /\ trace[j].call.event.event.id = trace[i].call.rpc_event.id)
        => LET P == trace[i].call.peer_id
               id == trace[i].call.rpc_event.id
               X == trace[i].call.rpc_event.body
               Y == trace[j].call.event.event.body
               req == SendEvent(P, Request(id, X))
               rsp == GenerateEvent(RPC(P, Response(id, Y)))
           IN  /\ AppendsOne(trace[i].before, trace[i].after, req)
               /\ AppendsOne(trace[j].before, trace[j].after, rsp)
               /\ DrainPos(i) < DrainPos(j)
               /\ DrainPos(j) \in DOMAIN DrainOrder
               /\ DrainOrder[DrainPos(i)] = req
               /\ DrainOrder[DrainPos(j)] = rsp

\* C9 witness: Request(2, "Y") was sent to B, Response(2, "X") came back
\* from B, poll returned the request and the response is next in the queue.
C9_Witness ==
    /\ Len(trace) = 3
    /\ trace[1].call = [op |-> "send_rpc", peer_id |-> "B",
                        rpc_event |-> Request(2, "Y")]
    /\ trace[2].call = [op |-> "inject_node_event", source |-> "B",
                        event |-> Rx(Response(2, "X"))]
    /\ IsPoll(3)
    /\ trace[3].result = Ready(SendEvent("B", Request(2, "Y")))
    /\ events = <<GenerateEvent(RPC("B", Response(2, "X")))>>

\* Number of calls after call i that returned an action from poll.
ReadyPollsAfter(i) ==
    Cardinality({k \in Calls : k > i /\ IsPoll(k) /\ trace[k].result.tag = "Ready"})

\* C10: only poll removes from the queue. Every other call leaves the
\* queue it found as a prefix of the queue it leaves, and poll removes
\* nothing but the head; so the action a send_rpc enqueued at position n is
\* still queued, n - k from the head, until k = n polls have returned an
\* action since.
C10_NoCancellation ==
    \A i \in Calls :
        /\ ~IsPoll(i) => IsPrefix(trace[i].before, trace[i].after)
        /\ IsPoll(i) =>
             \/ trace[i].after = trace[i].before
             \/ trace[i].after = Tail(trace[i].before)
        /\ IsSendRpc(i) =>
             LET n == Len(trace[i].after)
                 k == ReadyPollsAfter(i)
             IN  k < n =>
                   /\ Len(events) >= n - k
                   /\ events[n - k] = SendEvent(trace[i].call.peer_id,
                                                trace[i].call.rpc_event)

\* C10 witness: an event queued for A is still queued after A's connection
\* closed and the host asked for A's addresses.
C10_Witness ==
    /\ Len(trace) = 3
    /\ IsSendRpc(1) /\ trace[1].call.peer_id = "A"
    /\ IsDisconnected(2) /\ trace[2].call.peer_id = "A"
    /\ trace[3].call = [op |-> "addresses_of_peer", peer_id |-> "A"]
    /\ events = <<SendEvent("A", trace[1].call.rpc_event)>>

\* The calls i..j that were to enqueue an action.
EnqueuingIn(i, j) == {k \in i..j : Translate(trace[k].call) # <<>>}

\* C11: the queue has no capacity: over any run of calls i..j without a
\* poll, the queue grows by exactly the number of enqueuing calls among
\* them, so n enqueuing calls on the new controller leave exactly n actions,
\* each call adding its own action at the tail and evicting none.
C11_Unbounded ==
    \A i \in Calls : \A j \in Calls :
        (i <= j /\ \A k \in i..j : ~IsPoll(k))
        => /\ Len(trace[j].after) =
                Len(trace[i].before) + Cardinality(EnqueuingIn(i, j))
           /\ IsPrefix(trace[i].before, trace[j].after)
           /\ (i = 1 /\ j = Len(trace)) => events = Enqueued

\* C11 witness: MaxDeep enqueuing calls of all three kinds, no poll, and a
\* queue of MaxDeep actions.
C11_Witness ==
    /\ Len(trace) = MaxDeep
    /\ \A k \in Calls : IsSendRpc(k) \/ IsRx(k) \/ IsConnected(k, "Dialer")
    /\ \E k \in Calls : IsSendRpc(k)
    /\ \E k \in Calls : IsRx(k)
    /\ \E k \in Calls : IsConnected(k, "Dialer")
    /\ Len(events) = MaxDeep

\* The kinds of value the operations return: none of them is an error.
ResultTags == {"Unit", "NotReady", "Ready", "Handler", "Addresses"}

\* The poll i handed out a SendEvent for a peer the host has not reported
\* connected at that time: the host finds no handler for it and drops it.
HandsOutUndeliverable(i) ==
    /\ IsPoll(i)
    /\ trace[i].result.tag = "Ready"
    /\ trace[i].result.action.tag = "SendEvent"
    /\ ConnStatusAfter(trace[i].result.action.peer_id, i - 1) # "connected"

\* C12: a poll that hands out a SendEvent for a peer without a live handler
\* returns it like any other action and leaves the queue as any poll does,
\* the rest of the queue and nothing more: no GenerateEvent of any kind is
\* enqueued for it; and no call ever returns an error value.
C12_NoErrorForUndeliverable ==
    \A i \in Calls :
        /\ trace[i].result.tag \in ResultTags
        /\ HandsOutUndeliverable(i) =>
             /\ trace[i].result = Ready(trace[i].before[1])
             /\ trace[i].after = Tail(trace[i].before)
             /\ (i = Len(trace) => events = Tail(trace[i].before))

\* C12 witness: a request sent to A, which never connected, was handed out
\* by poll, the queue was left empty and the next poll returned NotReady.
C12_Witness ==
    /\ Len(trace) = 3
    /\ IsSendRpc(1) /\ trace[1].call.peer_id = "A"
    /\ HandsOutUndeliverable(2)
    /\ trace[2].after = <<>>
    /\ IsPoll(3) /\ trace[3].result = NotReady
    /\ events = <<>>

\* C13: addresses_of_peer returns the empty list for every peer in every
\* state, new_handler returns the default handler in every state, and
\* neither changes the queue.
C13_AddressesAndHandler ==
    \A i \in Calls :
        /\ trace[i].call.op = "addresses_of_peer" =>
             /\ trace[i].result = Addresses(<<>>)
             /\ trace[i].after = trace[i].before
        /\ trace[i].call.op = "new_handler" =>
             /\ trace[i].result = DefaultHandler
             /\ trace[i].after = trace[i].before

\* C13 witness: with A connected and an action queued, new_handler and
\* addresses_of_peer(A) returned the default handler and no address and
\* left the action queued.
C13_Witness ==
    /\ Len(trace) = 3
    /\ IsConnected(1, "Dialer") /\ trace[1].call.peer_id = "A"
    /\ trace[2].call.op = "new_handler"
    /\ trace[2].result = DefaultHandler
    /\ trace[3].call = [op |-> "addresses_of_peer", peer_id |-> "A"]
    /\ trace[3].result = Addresses(<<>>)
    /\ events = <<GenerateEvent(PeerDialed("A"))>>

\* C14: Rpc::new returns a controller with an empty queue: before any call
\* the queue is empty, and when the first call is poll it returns NotReady.
C14_NewIsEmpty ==
    /\ trace = <<>> => events = <<>>
    /\ trace # <<>> =>
         /\ trace[1].before = <<>>
         /\ IsPoll(1) => trace[1].result = NotReady /\ trace[1].after = <<>>

\* C14 witness: the first call on the new controller was poll and it
\* returned NotReady.
C14_Witness ==
    /\ Len(trace) = 1
    /\ IsPoll(1)
    /\ trace[1].result = NotReady
    /\ events = <<>>

\* The calls of the interleaved scenario: a request to A, A's handler
\* reports it sent, B's handler reports a response, then three polls.
ScenarioCalls ==
    <<[op |-> "send_rpc", peer_id |-> "A", rpc_event |-> Request(1, "X")],
      [op |-> "inject_node_event", source |-> "A", event |-> Sent],
      [op |-> "inject_node_event", source |-> "B",
       event |-> Rx(Response(2, "X"))],
      [op |-> "poll"], [op |-> "poll"], [op |-> "poll"]>>

\* The first n calls made are the first n calls of the scenario.
ScenarioRan(n) ==
    /\ Len(trace) >= n
    /\ \A k \in 1..n : trace[k].call = ScenarioCalls[k]

\* C15: the controller is a stateless translation. Every call but poll
\* leaves the queue it found followed by the translation of its own
\* arguments, whatever the queue held and whatever was called before; the
\* actions polled so far followed by those still queued are the translations
\* of the calls in call order, and once the queue is drained the results of
\* the successful polls are exactly that sequence. In the scenario the
\* polls return SendEvent to A, then GenerateEvent(RPC(B, Response(2, _))),
\* then NotReady.
C15_StatelessTranslation ==
    /\ \A i \in Calls :
         ~IsPoll(i) => trace[i].after = trace[i].before \o Translate(trace[i].call)
    /\ Returned \o events = Enqueued
    /\ events = <<>> => Returned = Enqueued
    /\ ScenarioRan(4) =>
         trace[4].result = Ready(SendEvent("A", Request(1, "X")))
    /\ ScenarioRan(5) =>
         trace[5].result = Ready(GenerateEvent(RPC("B", Response(2, "X"))))
    /\ ScenarioRan(6) => trace[6].result = NotReady

\* C15 witness: the scenario ran to its end and the three polls returned
\* the send to A, the response from B and NotReady.
C15_Witness ==
    /\ ScenarioRan(6)
    /\ Returned = <<SendEvent("A", Request(1, "X")),
                    GenerateEvent(RPC("B", Response(2, "X")))>>
    /\ trace[6].result = NotReady
    /\ events = <<>>

\* The record of the local Rpc's k-th inject_connected call.
LocalReport(k) ==
    LET i == CHOOSE i \in DOMAIN trace :
                 /\ trace[i].call.op = "inject_connected"
                 /\ Cardinality({j \in 1..i :
                                   trace[j].call.op = "inject_connected"}) = k
    IN  trace[i]

\* The record of the remote Rpc's k-th inject_connected call.
RemoteReport(k) == remote.trace[k]

\* The call of record r enqueued GenerateEvent(PeerDialed(peer)) and no more.
EnqueuedDialed(r, peer) ==
    AppendsOne(r.before, r.after, GenerateEvent(PeerDialed(peer)))

\* The call of record r enqueued nothing.
EnqueuedNothing(r) == r.after = r.before

\* C16: of the two controllers at the ends of a connection, the one whose
\* process dialed enqueues exactly one GenerateEvent(PeerDialed(_)), naming
\* the listener, and the listening one enqueues nothing; so once both have
\* been told of the connection exactly one of them has enqueued PeerDialed
\* for it, and at no time have both.
C16_OnlyDialerReports ==
    \A k \in DOMAIN links :
        /\ k <= LocalReports =>
             IF links[k] = LocalId
             THEN EnqueuedDialed(LocalReport(k), RemoteId)
             ELSE EnqueuedNothing(LocalReport(k))
        /\ k <= RemoteReports =>
             IF links[k] = RemoteId
             THEN EnqueuedDialed(RemoteReport(k), LocalId)
             ELSE EnqueuedNothing(RemoteReport(k))
        /\ (k <= LocalReports /\ k <= RemoteReports) =>
             ~(EnqueuedNothing(LocalReport(k)) <=> EnqueuedNothing(RemoteReport(k)))

\* C16 witness: the local process dialed the first connection and the
\* remote one the second; both controllers were told of both, and each
\* enqueued one PeerDialed, for the connection its own process dialed.
C16_Witness ==
    /\ links = <<LocalId, RemoteId>>
    /\ LocalReports = 2
    /\ RemoteReports = 2
    /\ trace[1].after = <<GenerateEvent(PeerDialed(RemoteId))>>
    /\ events = <<GenerateEvent(PeerDialed(RemoteId))>>
    /\ remote.trace[1].after = <<>>
    /\ remote.events = <<GenerateEvent(PeerDialed(LocalId))>>

\* Every poll made so far completed with NotReady on an empty queue, which
\* it left empty, and with the head of a non-empty queue, which it removed.
PollCompletes ==
    \A i \in Calls :
        IsPoll(i) =>
            IF trace[i].before = <<>>
            THEN trace[i].result = NotReady /\ trace[i].after = <<>>
            ELSE /\ trace[i].result = Ready(trace[i].before[1])
                 /\ trace[i].after = Tail(trace[i].before)

\* The k-th action enqueued has been returned by poll.
ReturnedKth(k) == Len(Returned) >= k /\ Returned[k] = Enqueued[k]

\* C17: with the host calling poll again and again (weak fairness of
\* FairPoll), every action enqueued is eventually returned by poll; once the
\* other calls have ceased the queue becomes empty and stays empty; and
\* every poll completes at once, with the head of the queue when there is
\* one and with NotReady when there is none.
C17_PollDrains ==
    /\ []PollCompletes
    /\ \A k \in 1..MaxInject : (Len(Enqueued) >= k) ~> ReturnedKth(k)
    /\ <>[](events = <<>>)

\* C17 witness: MaxInject actions were enqueued, poll returned all of them
\* in order and a poll after that returned NotReady.
C17_Witness ==
    /\ Len(Enqueued) = MaxInject
    /\ Returned = Enqueued
    /\ events = <<>>
    /\ IsPoll(Len(trace))
    /\ trace[Len(trace)].result = NotReady

\* The SendEvent actions of a sequence of actions, in order.
SendEventsOf(actions) == SelectSeq(actions, LAMBDA a : a.tag = "SendEvent")

RECURSIVE SentUpTo(_)
\* SendEvent { peer_id, event } for each send_rpc(peer_id, event) among the
\* first n calls, in the order of the calls.
SentUpTo(n) ==
    IF n = 0 THEN <<>>
    ELSE IF trace[n].call.op = "send_rpc"
         THEN Append(SentUpTo(n - 1),
                     SendEvent(trace[n].call.peer_id, trace[n].call.rpc_event))
         ELSE SentUpTo(n - 1)

\* C18: the controller originates no outbound traffic. The SendEvent
\* actions returned by poll or still queued are, one for one and in order,
\* the send_rpc calls made, so their number is the number of send_rpc calls;
\* no other call adds a SendEvent: a received request enqueues no response
\* and a dialed connection enqueues no request.
C18_NoSelfOriginatedSend ==
    /\ SendEventsOf(Returned \o events) = SentUpTo(Len(trace))
    /\ Len(SendEventsOf(Returned)) + Len(SendEventsOf(events)) =
         Cardinality({i \in Calls : IsSendRpc(i)})
    /\ \A i \in Calls :
         ~IsSendRpc(i) =>
            Len(SendEventsOf(trace[i].after)) <= Len(SendEventsOf(trace[i].before))

\* C18 witness: a request was received from A, a connection to B was
\* dialed and the application sent the response to A: the one SendEvent
\* queued is the application's.
C18_Witness ==
    /\ Len(trace) = 3
    /\ IsRx(1) /\ trace[1].call.source = "A"
    /\ trace[1].call.event.event = Request(1, "X")
    /\ IsConnected(2, "Dialer")
    /\ trace[3].call = [op |-> "send_rpc", peer_id |-> "A",
                        rpc_event |-> Response(1, "Y")]
    /\ SendEventsOf(events) = <<SendEvent("A", Response(1, "Y"))>>
    /\ Len(events) = 3

====
